---- MODULE Spec2Model ----
(***************************************************************************)
(* A model of cohistory.py: the raw key reader (InteractiveMenu.get_key),  *)
(* the paginated menu (InteractiveMenu.display_menu), the viewer loop      *)
(* (CodexHistoryViewer.run) and the scanning / parsing functions           *)
(* (get_dates, get_sessions, parse_conversation).                          *)
(*                                                                         *)
(* Strings that the code indexes or reads byte by byte are tuples of       *)
(* one-character strings: the escape byte is "ESC", carriage return "CR",  *)
(* newline "LF" and the interrupt byte 0x03 "ETX".                         *)
(***************************************************************************)
EXTENDS Integers, Sequences, FiniteSets, TLC

VARIABLES
    \* ---- the terminal and InteractiveMenu.get_key
    term_mode,       \* the tty's input mode: "cooked" or "raw"
    old_settings,    \* get_key's local: the mode saved by tcgetattr
    stdin,           \* bytes the terminal has delivered and nobody has read
    key,             \* get_key's `key`, then its caller's, until it is used
    raised,          \* an exception is propagating out of get_key
    \* ---- control
    pc,              \* the position of the single thread of control
    where,           \* which call of display_menu / get_key is running
    exit_status,     \* -1 while running, else the process's exit status
    \* ---- InteractiveMenu.display_menu
    total_items, paginate, items_per_page, total_pages,
    selected_index, current_page,
    menu_result,     \* the index display_menu returns, until the caller
                     \* has taken it (-1: none)
    \* ---- CodexHistoryViewer.run
    n_dates,         \* len(dates)
    day_idx,         \* selected_date_idx: the chosen entry of dates
    n_sessions,      \* len(sessions)
    session_idx,     \* selected_session_idx
    session_path,    \* session_path: its place in sessions (-1: none)
    n_messages,      \* len(messages) of the session parsed last
    \* ---- the scanning and parsing functions, each run on its own
    file,            \* parse_conversation: the lines of the session file
    messages,        \* parse_conversation: what it returned
    day_dir,         \* get_sessions: the files of the day directory
    sessions,        \* get_sessions: what it returned, or that it raised
    sessions_dir,    \* get_dates: the day directories under the root
    dates,           \* get_dates: what it returned, or that it raised
    io_error,        \* _read_session_metadata: the file cannot be read
    metadata,        \* _read_session_metadata: what it returned
    the_content,     \* _extract_text: its argument `content`
    the_text         \* _extract_text: what it returned, or that it raised

term_vars   == <<term_mode, old_settings, stdin, key, raised>>
menu_vars   == <<total_items, paginate, items_per_page, total_pages,
                 selected_index, current_page, menu_result>>
viewer_vars == <<n_dates, day_idx, n_sessions, session_idx, session_path,
                 n_messages>>
fn_vars     == <<file, messages, day_dir, sessions, sessions_dir, dates,
                 io_error, metadata, the_content, the_text>>
vars == <<term_vars, pc, where, exit_status, menu_vars, viewer_vars, fn_vars>>

---------------------------------------------------------------------------
(* Bounds of the model. *)

\* The user may press another key while at most this many bytes are unread.
MaxPending == 1
\* display_menu on its own is called with up to MaxItems items ...
MaxItems == 5
\* ... and a page size of 1..MaxPerPage.
MaxPerPage == 3
\* The viewer's scans find up to one page and ExtraEntries entries.
ExtraEntries == 1
\* A parsed session holds up to MaxMessages messages.
MaxMessages == 1
\* A session file given to parse_conversation has up to MaxLines lines.
MaxLines == 2
\* Times (of timestamps and of file modification) are 0..MaxTime.
MaxTime == 1
\* A day directory given to get_sessions has up to MaxFiles entries.
MaxFiles == 2
\* The root given to get_dates has up to MaxDays day directories ...
MaxDays == 2
\* ... of up to MaxDayFiles session files each.
MaxDayFiles == 2
\* A content list given to _extract_text has up to MaxParts elements.
MaxParts == 2

(* Program constants. *)
DATES_PER_PAGE    == 15
SESSIONS_PER_PAGE == 10

Min(a, b) == IF a < b THEN a ELSE b
Max(a, b) == IF a > b THEN a ELSE b

---------------------------------------------------------------------------
(* Keys as the terminal delivers them. *)

KeyUp       == <<"ESC", "[", "A">>
KeyDown     == <<"ESC", "[", "B">>
KeyPageUp   == <<"ESC", "[", "5", "~">>
KeyPageDown == <<"ESC", "[", "6", "~">>
KeyEnterCR  == <<"CR">>
KeyEnterLF  == <<"LF">>
KeyQ        == <<"q">>
KeyCtrlC    == <<"ETX">>
KeyOther    == <<"x">>
KeyRight    == <<"ESC", "[", "C">>

\* What one press of a key appends to the terminal's input.
KeyPresses == {KeyUp, KeyDown, KeyPageUp, KeyPageDown, KeyEnterCR, KeyEnterLF,
               KeyQ, KeyCtrlC, KeyOther, KeyRight}

Take(s, n) == SubSeq(s, 1, n)
Drop(s, n) == SubSeq(s, n + 1, Len(s))

---------------------------------------------------------------------------
(* The terminal. *)

\* The user presses a key while get_key waits in a read.  What is typed
\* before tty.setraw is discarded by it (setraw applies the mode with
\* TCSAFLUSH), so only keys typed in raw mode reach sys.stdin.
PressKey ==
    /\ pc \in {"read1", "read2"}
    /\ Len(stdin) < MaxPending
    /\ \E k \in KeyPresses : stdin' = stdin \o k
    /\ UNCHANGED <<term_mode, old_settings, key, raised, pc, where,
                   exit_status, menu_vars, viewer_vars>>
    /\ UNCHANGED fn_vars

---------------------------------------------------------------------------
(* InteractiveMenu.get_key *)

\* fd = stdin.fileno(); old_settings = tcgetattr(fd); try: tty.setraw(fd)
SetRaw == "raw"

GetKeyEnter ==
    /\ pc = "get_key"
    /\ old_settings' = term_mode
    /\ term_mode' = SetRaw
    /\ key' = <<>>
    /\ raised' = FALSE
    /\ pc' = "read1"
    /\ UNCHANGED <<stdin, where, exit_status, menu_vars, viewer_vars>>
    /\ UNCHANGED fn_vars

\* key = sys.stdin.read(1): blocks until a byte is there, or fails.
Read1 ==
    /\ pc = "read1"
    /\ \/ /\ Len(stdin) >= 1
          /\ key' = Take(stdin, 1)
          /\ stdin' = Drop(stdin, 1)
          /\ pc' = IF Head(stdin) = "ESC" THEN "read2" ELSE "finally"
          /\ UNCHANGED raised
       \/ /\ raised' = TRUE
          /\ pc' = "finally"
          /\ UNCHANGED <<key, stdin>>
    /\ UNCHANGED <<term_mode, old_settings, where, exit_status, menu_vars,
                   viewer_vars>>
    /\ UNCHANGED fn_vars

\* How many bytes get_key reads after an escape byte.
EscapeTail == 2

\* if key == "\x1b": key += sys.stdin.read(2)
Read2 ==
    /\ pc = "read2"
    /\ \/ /\ Len(stdin) >= EscapeTail
          /\ key' = key \o Take(stdin, EscapeTail)
          /\ stdin' = Drop(stdin, EscapeTail)
          /\ pc' = "finally"
          /\ UNCHANGED raised
       \/ /\ raised' = TRUE
          /\ pc' = "finally"
          /\ UNCHANGED <<key, stdin>>
    /\ UNCHANGED <<term_mode, old_settings, where, exit_status, menu_vars,
                   viewer_vars>>
    /\ UNCHANGED fn_vars

\* (A restore that runs on the return path only, as without try/finally.)
RestoredModeOnReturnOnly == IF raised THEN term_mode ELSE old_settings
\* The mode the finally clause sets: tcsetattr(fd, TCSADRAIN, old_settings).
RestoredMode == old_settings

\* finally: restore; then return key, or let the exception go on to main(),
\* whose `except Exception` prints it and exits with status 1.
GetKeyFinally ==
    /\ pc = "finally"
    /\ term_mode' = RestoredMode
    /\ IF raised
         THEN /\ pc' = "exited"
              /\ exit_status' = 1
         ELSE /\ pc' = IF where \in {"dates", "sessions", "menu"}
                         THEN "handle" ELSE "dismissed"
              /\ UNCHANGED exit_status
    /\ UNCHANGED <<old_settings, stdin, key, raised, where, menu_vars,
                   viewer_vars>>
    /\ UNCHANGED fn_vars

---------------------------------------------------------------------------
(* InteractiveMenu.display_menu *)

\* (A page count that rounds down.)
PageCountFloor(n, p) == Max(1, n \div p)
\* The page count display_menu computes when it paginates (line 75).
PageCount(n, p) == (n + p - 1) \div p

\* Lines 70-79: reset the selection and settle the page layout.
DisplayMenuEnter ==
    /\ pc = "display_menu"
    /\ selected_index' = 0
    /\ current_page' = 0
    /\ IF paginate /\ total_items > items_per_page
         THEN /\ total_pages' = PageCount(total_items, items_per_page)
              /\ UNCHANGED <<paginate, items_per_page>>
         ELSE /\ paginate' = FALSE
              /\ total_pages' = 1
              /\ items_per_page' = IF total_items > 0 THEN total_items ELSE 1
    /\ pc' = "render"
    /\ UNCHANGED <<term_vars, where, exit_status, total_items, menu_result,
                   viewer_vars>>
    /\ UNCHANGED fn_vars

\* Lines 102-103, as display_menu computes them at the top of each round.
start_idx == current_page * items_per_page
end_idx   == Min(start_idx + items_per_page, total_items)
\* Line 104: the indices of visible_items on page k.
PageStart(k) == k * items_per_page
PageEnd(k)   == Min(PageStart(k) + items_per_page, total_items)
VisibleOn(k) == {i \in 0..(total_items - 1) : PageStart(k) <= i /\ i < PageEnd(k)}

\* Lines 82-113: redraw the screen and call get_key.
Render ==
    /\ pc = "render"
    /\ pc' = "get_key"
    /\ UNCHANGED <<term_vars, where, exit_status, menu_vars, viewer_vars>>
    /\ UNCHANGED fn_vars

\* (An Up arrow that never leaves the page.)
OnUpStaysOnPage ==
    IF selected_index > start_idx
      THEN [sel |-> selected_index - 1, page |-> current_page]
      ELSE [sel |-> selected_index, page |-> current_page]
\* (An Up arrow that lands on the first item of the previous page.)
OnUpToPageStart ==
    IF selected_index > start_idx
      THEN [sel |-> selected_index - 1, page |-> current_page]
      ELSE IF paginate /\ current_page > 0
        THEN [sel |-> (current_page - 1) * items_per_page,
              page |-> current_page - 1]
        ELSE [sel |-> selected_index, page |-> current_page]
\* Lines 115-122: the Up arrow.
OnUp ==
    IF selected_index > start_idx
      THEN [sel |-> selected_index - 1, page |-> current_page]
      ELSE IF paginate /\ current_page > 0
        THEN LET new_start == (current_page - 1) * items_per_page
                 new_end   == Min(new_start + items_per_page, total_items)
             IN  [sel |-> Max(new_start, new_end - 1),
                  page |-> current_page - 1]
        ELSE [sel |-> selected_index, page |-> current_page]

\* (A Down arrow that turns the page without asking whether there is one.)
OnDownPastLastPage ==
    IF selected_index < Min(end_idx - 1, total_items - 1)
      THEN [sel |-> selected_index + 1, page |-> current_page]
      ELSE IF paginate
        THEN [sel |-> (current_page + 1) * items_per_page,
              page |-> current_page + 1]
        ELSE [sel |-> selected_index, page |-> current_page]
\* (A Down arrow that tests against the size of the page alone, and lets
\* the selection reach the place after the page.)
OnDownUnclamped ==
    IF selected_index < start_idx + items_per_page
      THEN [sel |-> selected_index + 1, page |-> current_page]
      ELSE IF paginate /\ current_page < total_pages - 1
        THEN [sel |-> (current_page + 1) * items_per_page,
              page |-> current_page + 1]
        ELSE [sel |-> selected_index, page |-> current_page]
\* Lines 123-128: the Down arrow.
OnDown ==
    IF selected_index < Min(end_idx - 1, total_items - 1)
      THEN [sel |-> selected_index + 1, page |-> current_page]
      ELSE IF paginate /\ current_page < total_pages - 1
        THEN [sel |-> (current_page + 1) * items_per_page,
              page |-> current_page + 1]
        ELSE [sel |-> selected_index, page |-> current_page]

\* Lines 129-132: Page Up.
OnPageUp ==
    IF current_page > 0
      THEN [sel |-> (current_page - 1) * items_per_page,
            page |-> current_page - 1]
      ELSE [sel |-> selected_index, page |-> current_page]

\* Lines 133-136: Page Down.
OnPageDown ==
    IF current_page < total_pages - 1
      THEN [sel |-> (current_page + 1) * items_per_page,
            page |-> current_page + 1]
      ELSE [sel |-> selected_index, page |-> current_page]

\* (A chain that ends in an `else` which selects, as Enter does.)
BranchElseSelects(k) ==
    IF k = <<"ESC", "[", "A">> THEN "up"
    ELSE IF k = <<"ESC", "[", "B">> THEN "down"
    ELSE IF k = <<"ESC", "[", "5", "~">> /\ paginate THEN "page_up"
    ELSE IF k = <<"ESC", "[", "6", "~">> /\ paginate THEN "page_down"
    ELSE IF k \in {<<"q">>, <<"ETX">>} THEN "quit"
    ELSE "enter"
\* (A chain in which 'q' returns the selection like Enter.)
BranchQuitReturns(k) ==
    IF k = <<"ESC", "[", "A">> THEN "up"
    ELSE IF k = <<"ESC", "[", "B">> THEN "down"
    ELSE IF k = <<"ESC", "[", "5", "~">> /\ paginate THEN "page_up"
    ELSE IF k = <<"ESC", "[", "6", "~">> /\ paginate THEN "page_down"
    ELSE IF k \in {<<"CR">>, <<"LF">>, <<"q">>} THEN "enter"
    ELSE IF k \in {<<"ETX">>} THEN "quit"
    ELSE "none"
\* The if/elif chain of lines 115-142: which branch takes the key.
Branch(k) ==
    IF k = <<"ESC", "[", "A">> THEN "up"
    ELSE IF k = <<"ESC", "[", "B">> THEN "down"
    ELSE IF k = <<"ESC", "[", "5", "~">> /\ paginate THEN "page_up"
    ELSE IF k = <<"ESC", "[", "6", "~">> /\ paginate THEN "page_down"
    ELSE IF k \in {<<"CR">>, <<"LF">>} THEN "enter"
    ELSE IF k \in {<<"q">>, <<"ETX">>} THEN "quit"
    ELSE "none"

\* The selection and page after the key is handled.
Moved(b) ==
    CASE b = "up"        -> OnUp
      [] b = "down"      -> OnDown
      [] b = "page_up"   -> OnPageUp
      [] b = "page_down" -> OnPageDown
      [] OTHER           -> [sel |-> selected_index, page |-> current_page]

\* The status of sys.exit on quit (line 142).
QuitStatus == 0

\* Lines 115-142: one round's handling of the key get_key returned.
HandleKey ==
    /\ pc = "handle"
    /\ LET b == Branch(key) IN
       /\ selected_index' = Moved(b).sel
       /\ current_page' = Moved(b).page
       /\ pc' = CASE b = "enter" -> "returned"
                  [] b = "quit"  -> "exited"
                  [] OTHER       -> "render"
       /\ menu_result' = IF b = "enter" THEN selected_index ELSE menu_result
       /\ exit_status' = IF b = "quit" THEN QuitStatus ELSE exit_status
    /\ key' = <<>>
    /\ UNCHANGED <<term_mode, old_settings, stdin, raised, where, total_items,
                   paginate, items_per_page, total_pages, viewer_vars>>
    /\ UNCHANGED fn_vars

---------------------------------------------------------------------------
(* CodexHistoryViewer and main() *)

\* main()'s `except Exception`: print the error, sys.exit(1).
Crash ==
    /\ pc' = "exited"
    /\ exit_status' = 1

\* CodexHistoryViewer.__init__: the sessions directory exists, or exit(1).
ViewerInit ==
    /\ pc = "init"
    /\ \/ /\ pc' = "get_dates"
          /\ UNCHANGED exit_status
       \/ Crash
    /\ UNCHANGED <<term_vars, where, menu_vars, viewer_vars>>
    /\ UNCHANGED fn_vars

\* How many entries a scan may find.
DateCounts    == {0, 1, DATES_PER_PAGE, DATES_PER_PAGE + ExtraEntries}
SessionCounts == {0, 1, SESSIONS_PER_PAGE - 1,
                  SESSIONS_PER_PAGE - 1 + ExtraEntries}

\* The call display_menu(items, title, paginate=flag, items_per_page=per_page).
CallDisplayMenu(n, flag, per_page, w) ==
    /\ total_items' = n
    /\ paginate' = flag
    /\ items_per_page' = per_page
    /\ where' = w
    /\ pc' = "display_menu"
    /\ UNCHANGED <<total_pages, selected_index, current_page, menu_result,
                   exit_status>>

\* A 'press any key' wait: clear_screen, print, self.menu.get_key().
CallGetKey(w) ==
    /\ where' = w
    /\ pc' = "get_key"
    /\ UNCHANGED <<menu_vars, exit_status>>

\* run(), lines 357-371: scan the dates; none, or a failed scan, ends the
\* process with status 1; otherwise show the date menu.
GetDates ==
    /\ pc = "get_dates"
    /\ \/ /\ Crash
          /\ UNCHANGED <<where, menu_vars, n_dates>>
       \/ \E n \in DateCounts :
            /\ n_dates' = n
            /\ IF n = 0
                 THEN Crash /\ UNCHANGED <<where, menu_vars>>
                 ELSE CallDisplayMenu(n, n > DATES_PER_PAGE, DATES_PER_PAGE,
                                      "dates")
    /\ UNCHANGED <<term_vars, day_idx, n_sessions, session_idx, session_path,
                   n_messages>>
    /\ UNCHANGED fn_vars

\* run(), line 373: day_label, day_path = dates[selected_date_idx]
DateChosen ==
    /\ pc = "returned" /\ where = "dates"
    /\ IF menu_result < n_dates
         THEN /\ day_idx' = menu_result
              /\ pc' = "get_sessions"
              /\ UNCHANGED exit_status
         ELSE Crash /\ UNCHANGED day_idx
    /\ menu_result' = -1
    /\ UNCHANGED <<term_vars, where, total_items, paginate, items_per_page,
                   total_pages, selected_index, current_page, n_dates,
                   n_sessions, session_idx, session_path, n_messages>>
    /\ UNCHANGED fn_vars

\* Line 387: menu_items = ["< Back to Dates"] + session_labels, where the
\* label at place i of session_labels is the label of sessions[i].
menu_items(n) ==
    <<[back |-> TRUE, session |-> -1]>>
      \o [i \in 1..n |-> [back |-> FALSE, session |-> i - 1]]

\* run(), lines 376-394: scan the day's sessions and show the session menu.
GetSessions ==
    /\ pc = "get_sessions"
    /\ \/ /\ Crash
          /\ UNCHANGED <<where, menu_vars, n_sessions>>
       \/ \E n \in SessionCounts :
            /\ n_sessions' = n
            /\ IF n = 0
                 THEN CallGetKey("no_sessions")
                 ELSE CallDisplayMenu(Len(menu_items(n)),
                                      Len(menu_items(n)) > SESSIONS_PER_PAGE,
                                      SESSIONS_PER_PAGE, "sessions")
    /\ UNCHANGED <<term_vars, n_dates, day_idx, session_idx, session_path,
                   n_messages>>
    /\ UNCHANGED fn_vars

\* The inner loop's locals once no line reads them again before they are
\* assigned anew: states that differ only in such values are one state.
InnerLocalsDead ==
    /\ session_idx' = 0
    /\ session_path' = -1
    /\ n_messages' = 0

\* (The place taken without the step back over "< Back to Dates".)
ChosenSessionSameIndex(idx) == idx
\* Line 399: sessions[selected_session_idx - 1]
ChosenSession(idx) == idx - 1

\* run(), lines 396-399: index 0 goes back to the dates, another index
\* picks sessions[selected_session_idx - 1].
SessionChosen ==
    /\ pc = "returned" /\ where = "sessions"
    /\ IF menu_result = 0
         THEN /\ pc' = "get_dates"
              /\ n_sessions' = 0
              /\ session_idx' = 0
              /\ UNCHANGED <<exit_status, session_path>>
         ELSE /\ session_idx' = menu_result
              /\ UNCHANGED n_sessions
              /\ IF ChosenSession(menu_result) < n_sessions
                   THEN /\ session_path' = ChosenSession(menu_result)
                        /\ pc' = "parse"
                        /\ UNCHANGED exit_status
                   ELSE Crash /\ UNCHANGED session_path
    /\ menu_result' = -1
    /\ UNCHANGED <<term_vars, where, total_items, paginate, items_per_page,
                   total_pages, selected_index, current_page, n_dates, day_idx,
                   n_messages>>
    /\ UNCHANGED fn_vars

\* (A parse whose errors are not caught and reach main().)
ParseSessionUncaught ==
    /\ pc = "parse"
    /\ \/ \E m \in 0..MaxMessages :
            /\ n_messages' = m
            /\ CallGetKey(IF m > 0 THEN "transcript" ELSE "no_messages")
       \/ /\ Crash
          /\ UNCHANGED <<where, menu_vars, n_messages>>
    /\ UNCHANGED <<term_vars, n_dates, day_idx, n_sessions, session_idx,
                   session_path>>
    /\ UNCHANGED fn_vars
\* run(), lines 400-410: parse the session; show the transcript, or report
\* that it has no messages; either way wait for a key.
ParseSession ==
    /\ pc = "parse"
    /\ \E m \in 0..MaxMessages :
         /\ n_messages' = m
         /\ CallGetKey(IF m > 0 THEN "transcript" ELSE "no_messages")
    /\ UNCHANGED <<term_vars, n_dates, day_idx, n_sessions, session_idx,
                   session_path>>
    /\ UNCHANGED fn_vars

\* (A wait that is always followed by `break`, as after "No sessions found".)
DismissedToDates ==
    /\ pc = "dismissed"
    /\ pc' = "get_dates"
    /\ key' = <<>>
    /\ InnerLocalsDead
    /\ UNCHANGED <<term_mode, old_settings, stdin, raised, where, exit_status,
                   menu_vars, n_dates, day_idx, n_sessions>>
    /\ UNCHANGED fn_vars
\* The key of a 'press any key' wait came: `break` to the outer loop after
\* "No sessions found", back to the session scan otherwise.
Dismissed ==
    /\ pc = "dismissed"
    /\ pc' = IF where = "no_sessions" THEN "get_dates" ELSE "get_sessions"
    /\ key' = <<>>
    /\ InnerLocalsDead
    /\ UNCHANGED <<term_mode, old_settings, stdin, raised, where, exit_status,
                   menu_vars, n_dates, day_idx, n_sessions>>
    /\ UNCHANGED fn_vars

\* main(), lines 434-436: outside get_key the tty is in its own mode, where
\* Ctrl-C is a signal: KeyboardInterrupt reaches main(), which exits with 0.
Interrupt ==
    /\ exit_status = -1
    /\ term_mode = "cooked"
    /\ pc' = "exited"
    /\ exit_status' = 0
    /\ UNCHANGED <<term_vars, where, menu_vars, viewer_vars>>
    /\ UNCHANGED fn_vars

---------------------------------------------------------------------------
(* Session files.  A text is a tuple of characters.  A line is what        *)
(* json.loads makes of it: `json` says whether the line is blank, is not   *)
(* JSON, is a JSON value other than an object, or is an object; for an     *)
(* object, `type`, `timestamp` and `payload` are what data.get returns.    *)

Whitespace == {" ", "\n"}

T_empty  == <<>>
T_space  == <<" ">>
T_hi     == <<"h", "i">>
T_there  == <<"t", "h", "e", "r", "e">>
T_padded == <<" ", "h", "i", " ">>
\* A JSON value that is no string where a text is looked for (a number, other
\* than 0): a one-element tuple that names it.
T_number == <<"5 (a number)">>
\* A JSON array or object where a name (a type, a role) is looked for:
\* Python cannot hash it, so a test of membership in a set raises TypeError.
Unhashable == "[] (an array)"

\* A timestamp value of a record: absent, or a string in one of the forms
\* datetime.fromisoformat knows (with a "Z", with a UTC offset, with
\* neither) or in none, or a value that is no string; t is the time it names.
NoTimestamp == [form |-> "absent", t |-> 0]

\* str.strip()
RECURSIVE LStrip(_)
LStrip(t) == IF t # <<>> /\ Head(t) \in Whitespace THEN LStrip(Tail(t)) ELSE t
RECURSIVE RStrip(_)
RStrip(t) ==
    IF t # <<>> /\ t[Len(t)] \in Whitespace
      THEN RStrip(SubSeq(t, 1, Len(t) - 1)) ELSE t
Strip(t) == RStrip(LStrip(t))

\* "\n".join(parts)
RECURSIVE Join(_)
Join(parts) ==
    IF parts = <<>> THEN <<>>
    ELSE IF Len(parts) = 1 THEN parts[1]
    ELSE parts[1] \o <<"\n">> \o Join(Tail(parts))

TextTypes == {"input_text", "output_text", "text"}

\* Lines 270-278: the part, if any, that one element of a list adds.
ItemParts(item) ==
    IF item.kind = "dict"
      THEN IF item.type \in TextTypes /\ item.text # <<>>
             THEN <<item.text>> ELSE <<>>
      ELSE IF item.kind = "str" THEN <<item.text>> ELSE <<>>

\* Line 273: `item_type in {...}` hashes item_type, and raises when it is
\* an array or an object.
ItemRaises(item) == item.kind = "dict" /\ item.type = Unhashable

RECURSIVE ListParts(_)
ListParts(items) ==
    IF items = <<>> THEN <<>>
    ELSE ItemParts(Head(items)) \o ListParts(Tail(items))

\* Lines 265-278: the parts gathered from the content.
Parts(content) ==
    IF content.kind = "str" THEN <<content.text>>
    ELSE IF content.kind = "list" THEN ListParts(content.items)
    ELSE <<>>

\* CodexHistoryViewer._extract_text raises TypeError: in the loop at the
\* first element whose type cannot be hashed, or in "\n".join (line 280) when
\* a part is no string.
extract_text_raises(content) ==
    \/ /\ content.kind = "list"
       /\ \E i \in 1..Len(content.items) : ItemRaises(content.items[i])
    \/ \E i \in 1..Len(Parts(content)) : Parts(content)[i] = T_number

\* CodexHistoryViewer._extract_text, when it returns
extract_text(content) ==
    Strip(Join(SelectSeq(Parts(content), LAMBDA part : part # <<>>)))

Roles == {"user", "assistant"}

\* (A loop body without the test of the role, lines 307-309.)
LineStepAnyRole(line) ==
    IF line.json = "blank" THEN "skip"
    ELSE IF line.json = "invalid" THEN "skip"
    ELSE IF line.json = "nonobject" THEN "raise"
    ELSE IF line.type # "response_item" THEN "skip"
    ELSE IF line.payload.kind = "absent" THEN "skip"
    ELSE IF line.payload.kind # "dict" THEN "skip"
    ELSE IF line.payload.type # "message" THEN "skip"
    ELSE IF extract_text_raises(line.payload.content) THEN "raise"
    ELSE IF extract_text(line.payload.content) = <<>> THEN "skip"
    ELSE "append"
\* Lines 289-313: what the loop body does with one line: "skip" it
\* (continue), "append" a message, or "raise".
LineStep(line) ==
    IF line.json = "blank" THEN "skip"                  \* not line.strip()
    ELSE IF line.json = "invalid" THEN "skip"           \* JSONDecodeError
    ELSE IF line.json = "nonobject" THEN "raise"        \* data.get: AttributeError
    ELSE IF line.type # "response_item" THEN "skip"
    ELSE IF line.payload.kind = "absent" THEN "skip"    \* {}.get("type") is None
    ELSE IF line.payload.kind # "dict" THEN "skip"
    ELSE IF line.payload.type # "message" THEN "skip"
    ELSE IF line.payload.role = Unhashable THEN "raise"  \* role not in {..}: TypeError
    ELSE IF line.payload.role \notin Roles THEN "skip"
    ELSE IF extract_text_raises(line.payload.content) THEN "raise"
    ELSE IF extract_text(line.payload.content) = <<>> THEN "skip"
    ELSE "append"

\* Lines 315-321: the message of a line that is appended.
MessageOf(line) ==
    [role |-> line.payload.role,
     content |-> extract_text(line.payload.content),
     timestamp |-> line.timestamp]

\* The for loop of lines 288-321 from line i on, with `acc` the messages so
\* far: the messages at the end of the file, or that a line raised.
RECURSIVE ParseFrom(_, _, _)
ParseFrom(lines, i, acc) ==
    IF i > Len(lines) THEN [raised |-> FALSE, messages |-> acc]
    ELSE LET step == LineStep(lines[i]) IN
         IF step = "raise" THEN [raised |-> TRUE, messages |-> acc]
         ELSE IF step = "append"
           THEN ParseFrom(lines, i + 1, Append(acc, MessageOf(lines[i])))
           ELSE ParseFrom(lines, i + 1, acc)

\* CodexHistoryViewer.parse_conversation: `except Exception` reports the
\* error and returns [].
parse_conversation(lines) ==
    LET r == ParseFrom(lines, 1, <<>>)
    IN  IF r.raised THEN <<>> ELSE r.messages

\* The lines of the session files of the model.
StrContent(t) == [kind |-> "str", text |-> t, items |-> <<>>]
ListContent(items) == [kind |-> "list", text |-> <<>>, items |-> items]
NoContent == [kind |-> "none", text |-> <<>>, items |-> <<>>]
TextItem(ty, t) == [kind |-> "dict", type |-> ty, text |-> t]
StrItem(t) == [kind |-> "str", type |-> "", text |-> t]
OtherItem == [kind |-> "number", type |-> "", text |-> <<>>]

NoPayload ==
    [kind |-> "absent", type |-> "", role |-> "", content |-> NoContent,
     timestamp |-> NoTimestamp, cwd |-> <<>>, originator |-> <<>>]
BadPayload ==
    [kind |-> "string", type |-> "", role |-> "", content |-> NoContent,
     timestamp |-> NoTimestamp, cwd |-> <<>>, originator |-> <<>>]
Payload(ty, role, content) ==
    [kind |-> "dict", type |-> ty, role |-> role, content |-> content,
     timestamp |-> NoTimestamp, cwd |-> <<>>, originator |-> <<>>]
MetaPayloadBy(ts, cwd, originator) ==
    [kind |-> "dict", type |-> "", role |-> "", content |-> NoContent,
     timestamp |-> ts, cwd |-> cwd, originator |-> originator]
MetaPayload(ts, cwd) == MetaPayloadBy(ts, cwd, <<>>)

Stamp(t) == [form |-> "Z", t |-> t]
T_proj == <<"p">>

BlankLine     == [json |-> "blank", type |-> "", timestamp |-> NoTimestamp,
                  payload |-> NoPayload]
InvalidLine   == [json |-> "invalid", type |-> "", timestamp |-> NoTimestamp,
                  payload |-> NoPayload]
NonObjectLine == [json |-> "nonobject", type |-> "", timestamp |-> NoTimestamp,
                  payload |-> NoPayload]
Record(ty, ts, payload) ==
    [json |-> "object", type |-> ty, timestamp |-> ts, payload |-> payload]
MessageLine(role, content, ts) ==
    Record("response_item", ts, Payload("message", role, content))

MessageLines ==
    { MessageLine("user", StrContent(T_hi), Stamp(1)),
      MessageLine("assistant",
                  ListContent(<<TextItem("output_text", T_hi),
                                TextItem("text", T_there)>>), NoTimestamp),
      MessageLine("user", ListContent(<<StrItem(T_padded), OtherItem,
                                        TextItem("image", T_there)>>), Stamp(0)) }
DroppedMessageLines ==
    { MessageLine("system", StrContent(T_hi), Stamp(1)),
      MessageLine("user", StrContent(T_space), Stamp(1)),
      MessageLine("assistant", ListContent(<<TextItem("text", T_empty),
                                             OtherItem>>), Stamp(0)),
      MessageLine("user", NoContent, NoTimestamp) }
OtherRecordLines ==
    { Record("session_meta", Stamp(0), NoPayload),
      Record("event_msg", NoTimestamp, BadPayload),
      Record("", NoTimestamp, NoPayload),
      Record("response_item", Stamp(1), NoPayload),
      Record("response_item", Stamp(1), BadPayload),
      Record("response_item", Stamp(1),
             Payload("function_call", "", NoContent)) }

\* Message records on which a test of membership or the join raises.
RaisingMessageLines ==
    { MessageLine(Unhashable, StrContent(T_hi), Stamp(1)),
      MessageLine("user", ListContent(<<StrItem(T_hi),
                                        TextItem(Unhashable, T_there)>>), Stamp(0)),
      MessageLine("assistant", ListContent(<<TextItem("text", T_number)>>),
                  NoTimestamp) }

Lines == {BlankLine, InvalidLine, NonObjectLine}
           \cup MessageLines \cup DroppedMessageLines \cup OtherRecordLines
           \cup RaisingMessageLines

SeqsUpTo(S, n) == UNION {[1..k -> S] : k \in 0..n}

\* The contents _extract_text is run on: a string, a list of elements, or
\* a value that is neither (null, a number, an object).
Items ==
    { StrItem(T_hi), StrItem(T_padded), StrItem(T_empty),
      TextItem("text", T_hi), TextItem("input_text", T_there),
      TextItem("output_text", T_space), TextItem("text", T_empty),
      TextItem("image", T_hi), OtherItem,
      TextItem(Unhashable, T_hi), TextItem("text", T_number) }
Contents ==
    {NoContent} \cup {StrContent(t) : t \in {T_empty, T_space, T_hi, T_padded}}
      \cup {ListContent(items) : items \in SeqsUpTo(Items, MaxParts)}

\* _extract_text run on a content.
ExtractText ==
    /\ pc = "extract_text"
    /\ the_text' = IF extract_text_raises(the_content)
                     THEN [raised |-> TRUE, text |-> <<>>]
                     ELSE [raised |-> FALSE, text |-> extract_text(the_content)]
    /\ pc' = "extracted"
    /\ UNCHANGED <<term_vars, where, exit_status, menu_vars, viewer_vars,
                   file, messages, day_dir, sessions, sessions_dir, dates,
                   io_error, metadata, the_content>>

\* parse_conversation run on a file.
ParseConversation ==
    /\ pc = "parse_conversation"
    /\ messages' = parse_conversation(file)
    /\ pc' = "parsed"
    /\ UNCHANGED <<term_vars, where, exit_status, menu_vars, viewer_vars,
                   file, day_dir, sessions, sessions_dir, dates,
                   io_error, metadata, the_content, the_text>>

---------------------------------------------------------------------------
(* get_sessions.  A datetime is [aware, t]: whether it carries a UTC       *)
(* offset, and the time it names.  Python refuses to order an aware and a  *)
(* naive datetime (TypeError).                                             *)

NoDatetime == [ok |-> FALSE, aware |-> FALSE, t |-> 0]
Datetime(aware, t) == [ok |-> TRUE, aware |-> aware, t |-> t]

\* CodexHistoryViewer._parse_iso_timestamp, given a string (or None)
parse_iso_timestamp(ts) ==
    IF ts.form = "absent" THEN NoDatetime                \* not timestamp
    ELSE IF ts.form = "Z" THEN Datetime(TRUE, ts.t)       \* [:-1] + "+00:00"
    ELSE IF ts.form = "offset" THEN Datetime(TRUE, ts.t)
    ELSE IF ts.form = "naive" THEN Datetime(FALSE, ts.t)
    ELSE NoDatetime                                       \* except Exception

EmptyMetadata == [timestamp |-> NoTimestamp, cwd |-> <<>>, originator |-> <<>>]

\* (A reader that takes the first line that is not blank.)
read_session_metadata_skipping_blanks(lines) ==
    LET rest == SelectSeq(lines, LAMBDA l : l.json # "blank")
        first_line == IF rest = <<>> THEN BlankLine ELSE rest[1] IN
    IF first_line.json # "object" THEN EmptyMetadata
    ELSE IF first_line.type # "session_meta" THEN EmptyMetadata
    ELSE IF first_line.payload.kind = "absent"
      THEN [timestamp |-> first_line.timestamp, cwd |-> <<>>,
            originator |-> <<>>]
    ELSE IF first_line.payload.kind # "dict" THEN EmptyMetadata
    ELSE [timestamp |-> IF first_line.payload.timestamp.form # "absent"
                          THEN first_line.payload.timestamp
                          ELSE first_line.timestamp,
          cwd |-> first_line.payload.cwd,
          originator |-> first_line.payload.originator]
\* CodexHistoryViewer._read_session_metadata: the first line only; {} when
\* it is blank, is no session_meta record, or anything raises.
read_session_metadata(lines) ==
    LET first_line == IF lines = <<>> THEN BlankLine ELSE lines[1] IN
    IF first_line.json # "object" THEN EmptyMetadata
    ELSE IF first_line.type # "session_meta" THEN EmptyMetadata
    ELSE IF first_line.payload.kind = "absent"
      THEN [timestamp |-> first_line.timestamp, cwd |-> <<>>,
            originator |-> <<>>]
    ELSE IF first_line.payload.kind # "dict" THEN EmptyMetadata
    ELSE [timestamp |-> IF first_line.payload.timestamp.form # "absent"
                          THEN first_line.payload.timestamp
                          ELSE first_line.timestamp,
          cwd |-> first_line.payload.cwd,
          originator |-> first_line.payload.originator]

\* The first lines of the files _read_session_metadata is run on.
T_cli == <<"c", "l", "i">>
MetadataLines ==
    {BlankLine, InvalidLine, NonObjectLine,
     Record("response_item", Stamp(1), Payload("message", "user", StrContent(T_hi))),
     Record("session_meta", Stamp(0), NoPayload),
     Record("session_meta", Stamp(0), BadPayload),
     Record("session_meta", Stamp(0), MetaPayloadBy(Stamp(1), T_proj, T_cli)),
     Record("session_meta", Stamp(0), MetaPayloadBy(NoTimestamp, <<>>, T_cli))}

\* _read_session_metadata run on a file: open() or readline() may fail
\* (OSError, UnicodeDecodeError), which `except Exception` turns into {}.
ReadSessionMetadata ==
    /\ pc = "read_session_metadata"
    /\ metadata' = IF io_error THEN EmptyMetadata
                               ELSE read_session_metadata(file)
    /\ pc' = "metadata_read"
    /\ UNCHANGED <<term_vars, where, exit_status, menu_vars, viewer_vars,
                   file, messages, day_dir, sessions, sessions_dir, dates,
                   io_error, the_content, the_text>>

\* Lines 224-232: the start time of a session file.
started_dt(f) ==
    LET started_at == read_session_metadata(f.lines).timestamp
        parsed == IF started_at.form # "nonstring"
                    THEN parse_iso_timestamp(started_at) ELSE NoDatetime
    IN  IF parsed.ok THEN parsed ELSE Datetime(FALSE, f.mtime)

\* Lines 234-237: the entry of the file at place i of the directory.
SessionEntry(f, i) ==
    [label |-> [hhmm |-> started_dt(f).t, name |-> i,
                cwd |-> read_session_metadata(f.lines).cwd],
     path |-> i,
     key |-> started_dt(f)]

\* list.sort(key=..., reverse=True), one element at a time: e goes behind
\* the elements whose key is not smaller; comparing an aware with a naive
\* key raises.
InsertDesc(sorted, e) ==
    IF \E i \in 1..Len(sorted) : sorted[i].key.aware # e.key.aware
      THEN [raised |-> TRUE, entries |-> sorted]
      ELSE LET n == Cardinality({i \in 1..Len(sorted) : sorted[i].key.t >= e.key.t})
           IN  [raised |-> FALSE,
                entries |-> SubSeq(sorted, 1, n) \o <<e>>
                              \o SubSeq(sorted, n + 1, Len(sorted))]

RECURSIVE SortDescFrom(_, _, _)
SortDescFrom(entries, i, sorted) ==
    IF i > Len(entries) THEN [raised |-> FALSE, entries |-> sorted]
    ELSE LET r == InsertDesc(sorted, entries[i]) IN
         IF r.raised THEN r ELSE SortDescFrom(entries, i + 1, r.entries)

SortDesc(entries) == SortDescFrom(entries, 1, <<>>)

\* Lines 220-237: the entries of the files the glob yields, hidden ones left
\* out, in directory order.
RECURSIVE SessionEntriesFrom(_, _)
SessionEntriesFrom(dir, i) ==
    IF i > Len(dir) THEN <<>>
    ELSE IF dir[i].hidden THEN SessionEntriesFrom(dir, i + 1)
    ELSE <<SessionEntry(dir[i], i)>> \o SessionEntriesFrom(dir, i + 1)

\* Line 240: [(label, path) for label, path, _ in session_entries]
LabelsAndPaths(entries) ==
    [i \in 1..Len(entries) |->
        [label |-> entries[i].label, path |-> entries[i].path]]

\* CodexHistoryViewer.get_sessions
get_sessions(dir) ==
    LET r == SortDesc(SessionEntriesFrom(dir, 1))
    IN  [raised |-> r.raised,
         entries |-> IF r.raised THEN <<>> ELSE LabelsAndPaths(r.entries)]

\* The session files of the model: their first line, modification time
\* and whether the name starts with a dot.
MetaLine(ts, top, cwd) == Record("session_meta", top, MetaPayload(ts, cwd))
Times == 0..MaxTime

FirstLines ==
    {<<>>, <<BlankLine>>, <<InvalidLine>>, <<NonObjectLine>>,
     <<Record("event_msg", Stamp(0), NoPayload)>>,
     <<Record("session_meta", NoTimestamp, BadPayload)>>,
     <<MetaLine([form |-> "invalid", t |-> 0], NoTimestamp, <<>>)>>,
     <<MetaLine([form |-> "nonstring", t |-> 0], NoTimestamp, T_proj)>>,
     <<MetaLine([form |-> "offset", t |-> 0], NoTimestamp, <<>>)>>,
     <<MetaLine(NoTimestamp, NoTimestamp, <<>>)>>}
      \cup {<<MetaLine([form |-> "Z", t |-> t], NoTimestamp, T_proj)>> : t \in Times}
      \cup {<<MetaLine([form |-> "naive", t |-> t], NoTimestamp, <<>>)>> : t \in Times}
      \cup {<<MetaLine(NoTimestamp, [form |-> "Z", t |-> t], <<>>)>> : t \in Times}

SessionFiles ==
    {[hidden |-> FALSE, mtime |-> m, lines |-> l] : m \in Times, l \in FirstLines}
      \cup {[hidden |-> TRUE, mtime |-> 0, lines |-> <<>>]}

\* get_sessions run on a day directory.
GetSessionsOfDay ==
    /\ pc = "get_sessions_of_day"
    /\ sessions' = get_sessions(day_dir)
    /\ pc' = "sessions_listed"
    /\ UNCHANGED <<term_vars, where, exit_status, menu_vars, viewer_vars,
                   file, messages, day_dir, sessions_dir, dates,
                   io_error, metadata, the_content, the_text>>

---------------------------------------------------------------------------
(* get_dates.  A day directory is root/year/month/day with the names as    *)
(* texts, and n_files session files (.jsonl, not hidden) in it.            *)

Digits == {"0", "1", "2", "3", "4", "5", "6", "7", "8", "9"}
DigitValue(c) ==
    CASE c = "0" -> 0 [] c = "1" -> 1 [] c = "2" -> 2 [] c = "3" -> 3
      [] c = "4" -> 4 [] c = "5" -> 5 [] c = "6" -> 6 [] c = "7" -> 7
      [] c = "8" -> 8 [] c = "9" -> 9

\* int(name) raises ValueError ...
IsInt(name) == name # <<>> /\ \A i \in 1..Len(name) : name[i] \in Digits
\* ... or gives the number the digits spell.
RECURSIVE IntOf(_)
IntOf(name) ==
    IF name = <<>> THEN 0
    ELSE 10 * IntOf(SubSeq(name, 1, Len(name) - 1)) + DigitValue(name[Len(name)])

IsLeap(y) == (y % 4 = 0 /\ y % 100 # 0) \/ y % 400 = 0
DaysInMonth(y, m) ==
    IF m = 2 THEN (IF IsLeap(y) THEN 29 ELSE 28)
    ELSE IF m \in {4, 6, 9, 11} THEN 30 ELSE 31

\* datetime(year=, month=, day=) raises ValueError for anything else.
IsDate(y, m, d) ==
    /\ 1 <= y /\ y <= 9999
    /\ 1 <= m /\ m <= 12
    /\ 1 <= d /\ d <= DaysInMonth(y, m)

\* Lines 173-203: the day directory is passed over (continue).
DaySkipped(dir) ==
    \/ ~IsInt(dir.year) \/ ~IsInt(dir.month) \/ ~IsInt(dir.day)
    \/ dir.n_files = 0

\* Lines 205-211: the entry of a day directory that is not passed over.
DateEntry(dir) ==
    [label |-> [year |-> IntOf(dir.year), month |-> IntOf(dir.month),
                day |-> IntOf(dir.day), count |-> dir.n_files,
                noun |-> IF dir.n_files = 1 THEN "session" ELSE "sessions"],
     path |-> <<dir.year, dir.month, dir.day>>,
     key |-> Datetime(FALSE, IntOf(dir.year) * 10000 + IntOf(dir.month) * 100
                               + IntOf(dir.day))]

\* The loops of lines 173-211 from the i-th day directory on.
RECURSIVE DateEntriesFrom(_, _, _)
DateEntriesFrom(dirs, i, acc) ==
    IF i > Len(dirs) THEN [raised |-> FALSE, entries |-> acc]
    ELSE IF DaySkipped(dirs[i]) THEN DateEntriesFrom(dirs, i + 1, acc)
    ELSE IF ~IsDate(IntOf(dirs[i].year), IntOf(dirs[i].month), IntOf(dirs[i].day))
      THEN [raised |-> TRUE, entries |-> acc]
    ELSE DateEntriesFrom(dirs, i + 1, Append(acc, DateEntry(dirs[i])))

\* CodexHistoryViewer.get_dates
get_dates(dirs) ==
    LET found == DateEntriesFrom(dirs, 1, <<>>)
        r == IF found.raised THEN found ELSE SortDesc(found.entries)
    IN  [raised |-> r.raised,
         entries |-> IF r.raised THEN <<>> ELSE LabelsAndPaths(r.entries)]

\* The day directories of the model.
YearNames  == {<<"2", "0", "2", "5">>, <<"l", "o", "g">>}
MonthNames == {<<"1">>, <<"0", "1">>, <<"0", "2">>, <<"1", "3">>, <<"t">>}
DayNames   == {<<"1">>, <<"0", "1">>, <<"3", "0">>, <<"3", "2">>, <<"x">>}
DayDirs ==
    {[year |-> y, month |-> m, day |-> d, n_files |-> n] :
        y \in YearNames, m \in MonthNames, d \in DayNames, n \in 0..MaxDayFiles}
PathOf(dir) == <<dir.year, dir.month, dir.day>>
Trees ==
    {t \in SeqsUpTo(DayDirs, MaxDays) :
        \A i, j \in 1..Len(t) : i # j => PathOf(t[i]) # PathOf(t[j])}

\* get_dates run on a root directory.
GetDatesOfRoot ==
    /\ pc = "get_dates_of_root"
    /\ dates' = get_dates(sessions_dir)
    /\ pc' = "dates_listed"
    /\ UNCHANGED <<term_vars, where, exit_status, menu_vars, viewer_vars,
                   file, messages, day_dir, sessions, sessions_dir,
                   io_error, metadata, the_content, the_text>>

---------------------------------------------------------------------------
(* The specifications. *)

Idle ==
    /\ term_mode = "cooked" /\ old_settings = "cooked"
    /\ stdin = <<>> /\ key = <<>> /\ raised = FALSE
    /\ exit_status = -1
    /\ total_pages = 1 /\ selected_index = 0 /\ current_page = 0
    /\ menu_result = -1
    /\ n_dates = 0 /\ day_idx = 0 /\ n_sessions = 0 /\ session_idx = 0
    /\ session_path = -1
    /\ n_messages = 0

NoFile == file = <<>> /\ messages = <<>>
NoDayDir == day_dir = <<>> /\ sessions = [raised |-> FALSE, entries |-> <<>>]
NoSessionsDir ==
    sessions_dir = <<>> /\ dates = [raised |-> FALSE, entries |-> <<>>]
NoMetadata == io_error = FALSE /\ metadata = EmptyMetadata
NoText ==
    the_content = NoContent /\ the_text = [raised |-> FALSE, text |-> <<>>]

\* The process as main() starts it.
Init ==
    /\ Idle /\ NoFile /\ NoDayDir /\ NoSessionsDir /\ NoMetadata /\ NoText
    /\ pc = "init" /\ where = "none"
    /\ total_items = 0 /\ paginate = FALSE /\ items_per_page = 1

GetKey == GetKeyEnter \/ Read1 \/ Read2 \/ GetKeyFinally
DisplayMenu == DisplayMenuEnter \/ Render \/ HandleKey

Next ==
    \/ PressKey
    \/ GetKey
    \/ DisplayMenu
    \/ ViewerInit \/ GetDates \/ DateChosen \/ GetSessions \/ SessionChosen
    \/ ParseSession \/ Dismissed
    \/ Interrupt

Spec == Init /\ [][Next]_vars

\* display_menu called on its own, with any item count, flag and page size.
MenuInit ==
    /\ Idle /\ NoFile /\ NoDayDir /\ NoSessionsDir /\ NoMetadata /\ NoText
    /\ pc = "display_menu" /\ where = "menu"
    /\ total_items \in 0..MaxItems
    /\ paginate \in BOOLEAN
    /\ items_per_page \in 1..MaxPerPage

MenuNext == PressKey \/ GetKey \/ DisplayMenu

MenuSpec == MenuInit /\ [][MenuNext]_vars

\* The process as main() starts it, or display_menu called on its own: the
\* menu under the viewer's calls and under any other.
ViewerOrMenuInit == Init \/ MenuInit

ViewerOrMenuSpec == ViewerOrMenuInit /\ [][Next]_vars

\* parse_conversation called on any file of up to MaxLines lines.
ParseInit ==
    /\ Idle /\ NoDayDir /\ NoSessionsDir /\ NoMetadata /\ NoText
    /\ pc = "parse_conversation" /\ where = "none"
    /\ total_items = 0 /\ paginate = FALSE /\ items_per_page = 1
    /\ file \in SeqsUpTo(Lines, MaxLines)
    /\ messages = <<>>

ParseNext == ParseConversation

ParseSpec == ParseInit /\ [][ParseNext]_vars

\* get_sessions called on any day directory of up to MaxFiles files.
SessionsInit ==
    /\ Idle /\ NoFile /\ NoSessionsDir /\ NoMetadata /\ NoText
    /\ pc = "get_sessions_of_day" /\ where = "none"
    /\ total_items = 0 /\ paginate = FALSE /\ items_per_page = 1
    /\ day_dir \in SeqsUpTo(SessionFiles, MaxFiles)
    /\ sessions = [raised |-> FALSE, entries |-> <<>>]

SessionsNext == GetSessionsOfDay

SessionsSpec == SessionsInit /\ [][SessionsNext]_vars

\* get_dates called on any root of up to MaxDays day directories.
DatesInit ==
    /\ Idle /\ NoFile /\ NoDayDir /\ NoMetadata /\ NoText
    /\ pc = "get_dates_of_root" /\ where = "none"
    /\ total_items = 0 /\ paginate = FALSE /\ items_per_page = 1
    /\ sessions_dir \in Trees
    /\ dates = [raised |-> FALSE, entries |-> <<>>]

DatesNext == GetDatesOfRoot

DatesSpec == DatesInit /\ [][DatesNext]_vars

\* _extract_text called on any content of up to MaxParts elements.
ExtractInit ==
    /\ Idle /\ NoFile /\ NoDayDir /\ NoSessionsDir /\ NoMetadata
    /\ pc = "extract_text" /\ where = "none"
    /\ total_items = 0 /\ paginate = FALSE /\ items_per_page = 1
    /\ the_content \in Contents
    /\ the_text = [raised |-> FALSE, text |-> <<>>]

ExtractNext == ExtractText

ExtractSpec == ExtractInit /\ [][ExtractNext]_vars

\* _read_session_metadata called on any file of up to MaxLines lines,
\* readable or not.
MetadataInit ==
    /\ Idle /\ NoDayDir /\ NoSessionsDir /\ NoText
    /\ pc = "read_session_metadata" /\ where = "none"
    /\ total_items = 0 /\ paginate = FALSE /\ items_per_page = 1
    /\ file \in SeqsUpTo(MetadataLines, MaxLines)
    /\ messages = <<>>
    /\ io_error \in BOOLEAN
    /\ metadata = EmptyMetadata

MetadataNext == ReadSessionMetadata

MetadataSpec == MetadataInit /\ [][MetadataNext]_vars

---------------------------------------------------------------------------
(* Properties of the key reader and the menu. *)

InGetKey == pc \in {"read1", "read2", "finally"}

\* The bytes the terminal delivered for the key being handled begin with k:
\* what get_key returned, followed by what it left unread.
Delivered(k) ==
    /\ Len(key \o stdin) >= Len(k)
    /\ Take(key \o stdin, Len(k)) = k

\* ceil(n / p), by its definition.
Ceil(n, p) == CHOOSE c \in 0..n : (c - 1) * p < n /\ n <= c * p

\* C1: every call of get_key restores the terminal mode it found, on every
\* exit path, so whenever control is outside get_key (drawing, scanning,
\* parsing, or after the process has ended by quit or by an error) the
\* terminal is not in raw mode.
C1_RawModeOnlyInsideGetKey ==
    ~InGetKey => term_mode # "raw"

\* C1's case: the two-byte read after an escape byte failed inside a
\* 'press any key' wait, the process has ended, and the mode is restored.
C1_Witness ==
    /\ pc = "exited" /\ raised /\ key = <<"ESC">>
    /\ where \in {"transcript", "no_messages", "no_sessions"}
    /\ term_mode = old_settings

\* C2: in a paginating menu, Down on the last item of a page that is not
\* the final one selects the first item of the next page, Up on the first
\* item of a page after the first selects the last item of the previous
\* page; Down on the last item of all and Up on item 0 change nothing.
C2_ArrowsCrossPages ==
    [][pc = "handle" =>
        LET k == current_page
            P == items_per_page
            N == total_items
            last == Ceil(N, P) - 1
        IN  /\ (paginate /\ key = KeyDown /\ k < last
                  /\ selected_index = (k + 1) * P - 1)
                 => (current_page' = k + 1 /\ selected_index' = (k + 1) * P)
            /\ (paginate /\ key = KeyUp /\ k > 0 /\ selected_index = k * P)
                 => (current_page' = k - 1 /\ selected_index' = k * P - 1)
            /\ (N > 0 /\ key = KeyDown /\ selected_index = N - 1)
                 => UNCHANGED <<current_page, selected_index>>
            /\ (key = KeyUp /\ selected_index = 0)
                 => UNCHANGED <<current_page, selected_index>>
    ]_vars

\* C2's case: Up is about to be handled on the first item of the last of
\* at least three pages, which Down events have reached.
C2_Witness ==
    /\ pc = "handle" /\ key = KeyUp /\ paginate
    /\ total_pages >= 3 /\ current_page = total_pages - 1
    /\ selected_index = current_page * items_per_page

\* Every item is visible on exactly one page, and no page is empty.
PagesPartitionItems ==
    /\ \A k \in 0..(total_pages - 1) : VisibleOn(k) # {}
    /\ \A i \in 0..(total_items - 1) :
         Cardinality({k \in 0..(total_pages - 1) : i \in VisibleOn(k)}) = 1

\* C3: called with N >= 1 items, a page size P >= 1 and the pagination
\* flag, display_menu lays out ceil(N/P) pages whose index ranges
\* [k*P, min((k+1)*P, N)) are non-empty and hold every item exactly once
\* when the flag is on and N > P, and one page with all N items otherwise.
C3_PagePartition ==
    [][(pc = "display_menu" /\ total_items >= 1) =>
        LET N == total_items
            P == items_per_page
        IN  IF paginate /\ N > P
              THEN /\ paginate'
                   /\ items_per_page' = P
                   /\ total_pages' = Ceil(N, P)
                   /\ PagesPartitionItems'
              ELSE /\ ~paginate'
                   /\ total_pages' = 1
                   /\ VisibleOn(0)' = 0..(N - 1)
    ]_vars

\* C3's case: a paginating menu of at least three pages, the last one
\* partly filled.
C3_Witness ==
    /\ pc = "render" /\ paginate /\ total_pages >= 3
    /\ total_items % items_per_page # 0

\* C4: in a paginating menu a PageDown key selects the first item of the
\* next page and a PageUp key the first item of the previous page, when
\* there is one; at the last / first page, and in a menu that does not
\* paginate, the key changes nothing.
C4_PageKeysMove ==
    [][pc = "handle" =>
        /\ (paginate /\ Delivered(KeyPageDown) /\ current_page < total_pages - 1)
             => /\ current_page' = current_page + 1
                /\ selected_index' = (current_page + 1) * items_per_page
        /\ (paginate /\ Delivered(KeyPageUp) /\ current_page > 0)
             => /\ current_page' = current_page - 1
                /\ selected_index' = (current_page - 1) * items_per_page
        /\ (Delivered(KeyPageDown) /\ ~(paginate /\ current_page < total_pages - 1))
             => UNCHANGED <<current_page, selected_index>>
        /\ (Delivered(KeyPageUp) /\ ~(paginate /\ current_page > 0))
             => UNCHANGED <<current_page, selected_index>>
    ]_vars

\* C5: when the terminal delivers the four bytes of Page Up or Page Down,
\* one call of get_key returns all four as the key the menu matches, and
\* leaves none of them unread.
C5_PageKeyReadWhole ==
    pc = "handle" =>
        /\ Delivered(KeyPageUp) => key = KeyPageUp
        /\ Delivered(KeyPageDown) => key = KeyPageDown

\* C6: a key 'q' or the interrupt byte read by display_menu ends the
\* process with status 0: display_menu returns no index for it, and once the
\* process has ended no step of the viewer runs.
C6_QuitExitsWithSuccess ==
    /\ [][(pc = "handle" /\ key \in {KeyQ, KeyCtrlC}) =>
            /\ pc' = "exited"
            /\ exit_status' = 0
            /\ menu_result' = -1]_vars
    /\ [][pc = "exited" => (pc' = "exited" /\ UNCHANGED vars)]_vars

\* C6's case: the interrupt byte is about to be handled in a session menu
\* whose selection has moved.
C6_Witness ==
    /\ pc = "handle" /\ key = KeyCtrlC
    /\ where = "sessions" /\ selected_index > 0

\* C16: display_menu called with no items raises nothing and shows no item;
\* whatever key comes, Up, Down, Page Up and Page Down among them, the
\* selection stays 0 and the page stays 0, and Enter returns index 0.
C16_EmptyMenu ==
    /\ []((total_items = 0 /\ pc \in {"render", "get_key", "read1", "read2",
                                      "finally", "handle", "returned"})
            => /\ selected_index = 0 /\ current_page = 0
               /\ VisibleOn(current_page) = {}
               /\ (pc = "returned" => menu_result = 0))
    /\ [][(total_items = 0 /\ pc = "handle") =>
            /\ selected_index' = 0 /\ current_page' = 0
            /\ exit_status' # 1
            /\ (key \in {KeyEnterCR, KeyEnterLF}
                  => pc' = "returned" /\ menu_result' = 0)
            /\ (\E k \in {KeyUp, KeyDown, KeyPageUp, KeyPageDown} : Delivered(k))
                  => pc' = "render"
       ]_vars

\* C16's case: in a menu without items the bytes of Page Down have come and
\* the key is about to be handled.
C16_Witness ==
    /\ total_items = 0 /\ pc = "handle" /\ Delivered(KeyPageDown)
    /\ selected_index = 0 /\ current_page = 0

\* The keys display_menu knows.
RecognizedKeys == {KeyUp, KeyDown, KeyPageUp, KeyPageDown, KeyEnterCR,
                   KeyEnterLF, KeyQ, KeyCtrlC}

\* C17: a key that is none of Up, Down, Page Up, Page Down, Enter, 'q' and
\* the interrupt byte (another single byte, or an escape sequence of three
\* bytes that is none of these) changes neither the selection nor the
\* page, raises nothing, and makes display_menu neither return nor exit:
\* the menu is drawn again and the next key is awaited.
C17_IgnoredKeys ==
    [][(pc = "handle" /\ ~\E k \in RecognizedKeys : Delivered(k)) =>
        /\ UNCHANGED <<selected_index, current_page>>
        /\ UNCHANGED <<total_items, paginate, items_per_page, total_pages>>
        /\ pc' = "render"
        /\ exit_status' = -1 /\ menu_result' = -1
    ]_vars

\* C17's case: the Right arrow, an escape sequence the menu does not know,
\* is about to be handled on a later page of a paginating menu.
C17_Witness ==
    /\ pc = "handle" /\ key = KeyRight
    /\ paginate /\ current_page > 0 /\ selected_index > start_idx

\* display_menu is past its first lines and has not exited.
InMenuLoop ==
    /\ where \in {"dates", "sessions", "menu"}
    /\ pc \in {"render", "get_key", "read1", "read2", "finally", "handle",
               "returned"}

\* C19: in a menu of N >= 1 items, whatever the page size and the keys, the
\* page is one of 0..total_pages-1 and the selection lies on it, in
\* [page*P, min((page+1)*P, N)); so the index Enter returns is in 0..N-1,
\* and the viewer's dates[index] and sessions[index - 1] exist: no step
\* that uses the returned index ends the process with an error.
C19_SelectionInBounds ==
    /\ []((InMenuLoop /\ total_items >= 1) =>
            /\ current_page \in 0..(total_pages - 1)
            /\ current_page * items_per_page <= selected_index
            /\ selected_index < Min((current_page + 1) * items_per_page,
                                    total_items)
            /\ pc = "returned" => menu_result \in 0..(total_items - 1))
    /\ []((pc = "returned" /\ where = "dates")
            => menu_result \in 0..(n_dates - 1))
    /\ []((pc = "returned" /\ where = "sessions" /\ menu_result # 0)
            => menu_result - 1 \in 0..(n_sessions - 1))
    /\ [][pc = "returned" => exit_status' # 1]_vars

\* C19's case: Enter has returned the last date of a date menu of two
\* pages, reached with the Down arrow.
C19_Witness ==
    /\ pc = "returned" /\ where = "dates"
    /\ n_dates > DATES_PER_PAGE /\ menu_result = n_dates - 1
    /\ current_page = total_pages - 1

\* C20: in a menu of N >= 1 items the Down arrow adds 1 to the selection,
\* stopping at N - 1, and the Up arrow subtracts 1, stopping at 0, whether
\* the menu paginates or not and whatever the page size; and in a menu
\* that paginates the page is always floor(selection / P).  A paginating
\* and a non-paginating menu of the same N items given the same arrows so
\* hold the same selection, and Enter returns the same index in both.
C20_PaginationTransparent ==
    /\ []((InMenuLoop /\ total_items >= 1) =>
            /\ paginate => current_page = selected_index \div items_per_page
            /\ ~paginate => current_page = 0
            /\ pc = "returned" => menu_result = selected_index)
    /\ [][(pc = "handle" /\ total_items >= 1) =>
            /\ key = KeyDown =>
                  selected_index' = Min(selected_index + 1, total_items - 1)
            /\ key = KeyUp =>
                  selected_index' = Max(selected_index - 1, 0)
       ]_vars

\* C20's case: the Down arrow is about to be handled on the last item of
\* the middle page of a paginating menu, where the page turns.
C20_Witness ==
    /\ pc = "handle" /\ key = KeyDown /\ paginate
    /\ total_pages >= 3 /\ current_page = 1
    /\ selected_index = end_idx - 1

---------------------------------------------------------------------------
(* Properties of the viewer's loops. *)

\* The step is the interrupt signal (Ctrl-C typed while the tty is not in
\* raw mode), which ends the process from anywhere.
Interrupted == term_mode = "cooked" /\ pc' = "exited" /\ exit_status' = 0

\* A transcript, or the report that the session has no messages, is on the
\* screen or about to be.
OnSessionScreen == where \in {"transcript", "no_messages"}

\* C13: once a session is chosen, the viewer shows the transcript if the
\* parse gave a message and the 'no messages' report if it gave none, never
\* the other; it then reads one key, and whatever key that is, the next
\* thing it does is the session scan of the same date: it neither goes back
\* to the dates nor ends the process.
C13_InnerLoopReturnPath ==
    [][~Interrupted =>
        /\ pc = "parse" =>
              /\ pc' = "get_key"
              /\ where' = IF n_messages' > 0 THEN "transcript" ELSE "no_messages"
              /\ day_idx' = day_idx
        /\ (OnSessionScreen /\ pc \in {"get_key", "read1", "read2", "finally"}
               /\ ~raised') =>
              /\ pc' \in {"read1", "read2", "finally", "dismissed"}
              /\ where' = where /\ day_idx' = day_idx
        /\ (OnSessionScreen /\ pc = "dismissed") =>
              /\ pc' = "get_sessions"
              /\ day_idx' = day_idx
              /\ exit_status' = -1
    ]_vars

\* C13's case: 'q', which ends the process in a menu, is the key that
\* dismissed the transcript of a session of the second date.
C13_Witness ==
    /\ pc = "dismissed" /\ where = "transcript" /\ key = KeyQ
    /\ n_messages > 0 /\ day_idx = 1 /\ session_idx >= 1

\* The step ends the process.
Exits == pc # "exited" /\ pc' = "exited"

\* The step is a quit from a menu of the viewer.
MenuQuit ==
    /\ pc = "handle" /\ where \in {"dates", "sessions"}
    /\ key \in {KeyQ, KeyCtrlC}
    /\ exit_status' = 0

\* The step is the exit of __init__ on a missing sessions directory.
MissingRoot == pc = "init" /\ exit_status' = 1

\* C14 as stated: the process ends only by a quit from a menu or because
\* the sessions directory is missing at startup (a Ctrl-C that arrives as a
\* signal set aside); no other state of the loops ends it.
C14_OnlyQuitOrMissingRoot ==
    [][(Exits /\ ~Interrupted) => (MenuQuit \/ MissingRoot)]_vars

\* C14 as amended: the loops of run() have no way out but the end of the
\* process, and the process ends only by a quit from a menu (status 0), by
\* the interrupt signal (status 0), because the sessions directory is
\* missing at startup, because a scan of the dates finds none or fails, or
\* because a scan of the sessions or a read of a key fails (status 1 each);
\* choosing, parsing and dismissing never end it.
C14_ExitsOfViewer ==
    [][Exits =>
        \/ MenuQuit
        \/ Interrupted
        \/ MissingRoot
        \/ pc = "get_dates" /\ exit_status' = 1
        \/ pc = "get_sessions" /\ exit_status' = 1
        \/ pc = "finally" /\ raised /\ exit_status' = 1
    ]_vars

\* C14's case: the process has ended with status 1 in a scan of the dates
\* that found none, after the user had been through a date without sessions.
C14_Witness ==
    /\ pc = "exited" /\ exit_status = 1
    /\ where = "no_sessions" /\ n_dates = 0 /\ ~raised

\* C15: the session menu shows "< Back to Dates" and then the labels of the
\* sessions of the scan made in the same round of the inner loop; when
\* display_menu returns 0 the viewer goes back to the dates and parses no
\* file, and when it returns i >= 1 the viewer parses the session whose
\* label is at place i of the menu, that is sessions[i - 1] of that scan.
C15_SessionIndexMapping ==
    [][(pc = "returned" /\ where = "sessions" /\ ~Interrupted) =>
        LET shown == menu_items(n_sessions) IN
        /\ total_items = Len(shown)
        /\ shown[menu_result + 1].back <=> menu_result = 0
        /\ IF menu_result = 0
             THEN pc' = "get_dates" /\ session_path' = -1
             ELSE /\ pc' = "parse"
                  /\ session_path' = shown[menu_result + 1].session
                  /\ session_path' = menu_result - 1
    ]_vars

\* C15's case: the last session of a menu of two pages has been chosen and
\* is about to be parsed.
C15_Witness ==
    /\ pc = "parse" /\ where = "sessions"
    /\ n_sessions >= SESSIONS_PER_PAGE
    /\ session_idx = n_sessions /\ session_path = n_sessions - 1

---------------------------------------------------------------------------
(* Properties of parse_conversation. *)

\* The four kinds of line C7 speaks of.
IsBlankLine(l) == l.json = "blank"
IsMalformedLine(l) == l.json \in {"invalid", "nonobject"}
IsUnrecognizedRecord(l) == l.json = "object" /\ l.type # "response_item"
IsValidMessageLine(l) == l \in MessageLines

\* The messages of the valid message lines, in file order.
ValidMessages(lines) ==
    LET valid == SelectSeq(lines, IsValidMessageLine)
    IN  [i \in 1..Len(valid) |-> MessageOf(valid[i])]

\* C7: for a file whose lines are each blank, malformed (not JSON, or a
\* JSON value that is no object), a record of an unrecognized type or a
\* valid user / assistant message with text, parse_conversation returns
\* exactly the messages of the valid message lines, in file order.
C7_ParseSkipsLineByLine ==
    (/\ pc = "parsed"
     /\ \A i \in 1..Len(file) :
          \/ IsBlankLine(file[i]) \/ IsMalformedLine(file[i])
          \/ IsUnrecognizedRecord(file[i]) \/ IsValidMessageLine(file[i]))
      => messages = ValidMessages(file)

\* The line is a response_item / message record.
IsMessageRecord(l) ==
    /\ l.json = "object" /\ l.type = "response_item"
    /\ l.payload.kind = "dict" /\ l.payload.type = "message"

\* The text is empty or holds whitespace only.
IsBlankText(t) == \A i \in 1..Len(t) : t[i] \in Whitespace

\* The message record has the role of a user or an assistant and a text that
\* is not blank: the records that may contribute an element.
Contributes(l) ==
    /\ IsMessageRecord(l)
    /\ l.payload.role \in {"user", "assistant"}
    /\ ~extract_text_raises(l.payload.content)
    /\ ~IsBlankText(extract_text(l.payload.content))

\* C11: every message parse_conversation returns has the role "user" or
\* "assistant" and a content that is a string with something other than
\* whitespace in it; each returned message is the message of a line of the
\* file that is a response_item / message record with such a role and text,
\* and there are no more messages than such lines: a record with another
\* role (say "system") or with an empty or blank text adds none.
C11_MessageInvariant ==
    pc = "parsed" =>
        /\ \A i \in 1..Len(messages) :
             /\ messages[i].role \in {"user", "assistant"}
             /\ messages[i].content # T_number
             /\ ~IsBlankText(messages[i].content)
             /\ \E j \in 1..Len(file) :
                  /\ Contributes(file[j])
                  /\ messages[i].role = file[j].payload.role
                  /\ messages[i].content = extract_text(file[j].payload.content)
        /\ Len(messages)
             <= Cardinality({j \in 1..Len(file) : Contributes(file[j])})

\* C11's case: a file with a system record or a record of blank text beside
\* a record that gave a message.
C11_Witness ==
    /\ pc = "parsed" /\ Len(messages) = 1
    /\ \E j \in 1..Len(file) :
         /\ IsMessageRecord(file[j])
         /\ \/ file[j].payload.role = "system"
            \/ file[j].payload.content = StrContent(T_space)

---------------------------------------------------------------------------
(* Properties of _extract_text. *)

\* The element is a structured item of one of the three text types, with a
\* text that is a string, or is itself a string.
IsTextElement(item) ==
    \/ item.kind = "str"
    \/ item.kind = "dict" /\ item.type \in {"input_text", "output_text", "text"}
         /\ item.text # T_number

\* The texts of the text elements of a list, in list order, those that are
\* empty left out.
TextsOf(items) ==
    LET kept == SelectSeq(items, LAMBDA item :
                              IsTextElement(item) /\ item.text # <<>>)
    IN  [i \in 1..Len(kept) |-> kept[i].text]

\* C18: _extract_text never fails; for a content that is a list it returns
\* the texts of the elements that are items of type input_text, output_text
\* or text, or are strings, in list order, joined by newlines and trimmed
\* of leading and trailing whitespace, the elements of any other shape
\* being dropped; for a content that is a string it returns that string
\* (trimmed).
C18_TextExtraction ==
    pc = "extracted" =>
        /\ ~the_text.raised
        /\ the_content.kind = "list"
             => the_text.text = Strip(Join(TextsOf(the_content.items)))
        /\ the_content.kind = "str"
             => the_text.text = Strip(the_content.text)

---------------------------------------------------------------------------
(* Properties of _read_session_metadata. *)

\* The metadata a record holds: for a session_meta record with a payload
\* object (or none), the timestamp of the payload, else of the record, the
\* cwd and the originator; the empty metadata for a line of any other kind.
MetadataOfRecord(l) ==
    IF l.json = "object" /\ l.type = "session_meta"
         /\ l.payload.kind \in {"absent", "dict"}
      THEN [timestamp |-> IF l.payload.timestamp.form # "absent"
                            THEN l.payload.timestamp ELSE l.timestamp,
            cwd |-> l.payload.cwd,
            originator |-> l.payload.originator]
      ELSE EmptyMetadata

FirstNonBlank(lines) ==
    LET rest == SelectSeq(lines, LAMBDA l : ~IsBlankLine(l))
    IN  IF rest = <<>> THEN BlankLine ELSE rest[1]

\* C12 as stated: _read_session_metadata never raises and returns the
\* metadata of the first line that is not blank, leading blank lines passed
\* over: its timestamp, cwd and originator when it is a session_meta record,
\* and the empty metadata in every other case (another type, a malformed
\* line, a value that is no object, a file that cannot be read).
C12_FirstNonBlankLine ==
    pc = "metadata_read" =>
        metadata = IF io_error THEN EmptyMetadata
                   ELSE MetadataOfRecord(FirstNonBlank(file))

\* C12 as amended: _read_session_metadata never raises and returns the
\* metadata of the first line of the file, blank or not: its timestamp, cwd
\* and originator when that line is a session_meta record, and the empty
\* metadata in every other case (a blank first line, whatever follows it,
\* another type, a malformed line, a value that is no object, a file that
\* is empty or cannot be read).
C12_FirstLineOnly ==
    pc = "metadata_read" =>
        metadata = IF io_error \/ file = <<>> THEN EmptyMetadata
                   ELSE MetadataOfRecord(file[1])

\* C12's case: a blank first line with a session_meta record behind it,
\* read without an error.
C12_Witness ==
    /\ pc = "metadata_read" /\ ~io_error /\ Len(file) = 2
    /\ IsBlankLine(file[1])
    /\ MetadataOfRecord(file[2]) # EmptyMetadata
    /\ metadata = EmptyMetadata

---------------------------------------------------------------------------
(* Properties of get_sessions and get_dates. *)

\* The file has a session_meta first record with a timestamp that parses.
HasValidStamp(f) ==
    /\ f.lines # <<>>
    /\ f.lines[1].json = "object" /\ f.lines[1].type = "session_meta"
    /\ f.lines[1].payload.kind \in {"absent", "dict"}
    /\ LET ts == IF f.lines[1].payload.timestamp.form # "absent"
                   THEN f.lines[1].payload.timestamp
                   ELSE f.lines[1].timestamp
       IN  ts.form \in {"Z", "offset", "naive"}

\* The resolved start time: the metadata timestamp, else the file's mtime.
ResolvedStart(f) ==
    IF HasValidStamp(f)
      THEN (IF f.lines[1].payload.timestamp.form # "absent"
              THEN f.lines[1].payload.timestamp.t
              ELSE f.lines[1].timestamp.t)
      ELSE f.mtime

\* C8: for any mix of session files with a valid metadata timestamp (with
\* a "Z" or an offset, or without) and files without valid metadata,
\* get_sessions does not raise and returns one entry per session file, by
\* descending resolved start time, the modification time standing in where
\* the metadata gives none.
C8_SessionsSortedNeverRaises ==
    pc = "sessions_listed" =>
        LET e == sessions.entries
            visible == {i \in 1..Len(day_dir) : ~day_dir[i].hidden}
        IN  /\ ~sessions.raised
            /\ Len(e) = Cardinality(visible)
            /\ {e[i].path : i \in 1..Len(e)} = visible
            /\ \A i, j \in 1..Len(e) :
                 i < j => ResolvedStart(day_dir[e[i].path])
                            >= ResolvedStart(day_dir[e[j].path])

\* The day directory's names are numbers.
NumericPath(dir) == IsInt(dir.year) /\ IsInt(dir.month) /\ IsInt(dir.day)
\* ... that form a calendar date.
CalendarPath(dir) ==
    NumericPath(dir) /\ IsDate(IntOf(dir.year), IntOf(dir.month), IntOf(dir.day))
ReturnedPaths == {dates.entries[i].path : i \in 1..Len(dates.entries)}
DateNumber(path) == IntOf(path[1]) * 10000 + IntOf(path[2]) * 100 + IntOf(path[3])

\* C9: get_dates never fails on directory names: a day directory whose
\* names are not numbers, or are numbers that form no calendar date, is
\* skipped, and the entries of all the other day directories that hold a
\* session file are returned.
C9_DatesSkipBadNames ==
    pc = "dates_listed" =>
        /\ ~dates.raised
        /\ ReturnedPaths =
             {PathOf(sessions_dir[i]) : i \in
                {i \in 1..Len(sessions_dir) :
                    CalendarPath(sessions_dir[i]) /\ sessions_dir[i].n_files >= 1}}

\* C10: the entries get_dates returns are in strictly descending order of
\* date (no two neighbours have the same date), and a day directory is
\* among them exactly if its three names parse as integers and it holds at
\* least one session file.
C10_DatesStrictlyDescending ==
    (pc = "dates_listed" /\ ~dates.raised) =>
        /\ \A i \in 1..(Len(dates.entries) - 1) :
             DateNumber(dates.entries[i].path) > DateNumber(dates.entries[i + 1].path)
        /\ \A i \in 1..Len(sessions_dir) :
             PathOf(sessions_dir[i]) \in ReturnedPaths
               <=> (NumericPath(sessions_dir[i]) /\ sessions_dir[i].n_files >= 1)

====
